---- MODULE Spec2Model ----
(***************************************************************************)
(* Inventory ledger of src/app.py: two tables (inventory, transaction      *)
(* history) held per browser session, written to two local CSV files and   *)
(* mirrored to two blobs of a GitHub repository.                           *)
(*                                                                         *)
(* Every session runs the script to completion for each interaction; the   *)
(* sessions of one server share the local files and the repository.  A     *)
(* handler is one step, except that save_data yields at each network call  *)
(* of its GitHub part (get_repo, get_contents, update_file, create_file):  *)
(* that is where another session's calls can fall in between.              *)
(*                                                                         *)
(* Transaction kinds: "RECEIVE" is the selectbox value for incoming stock, *)
(* "SHIP" the one for outgoing stock, "RETURN" the one for returns.        *)
(***************************************************************************)
EXTENDS Integers, Sequences, FiniteSets, TLC

\* ------------------------------------------------------------------ bounds
MaxPosts == 2
MaxReportLog == 3

Sessions == {"s1", "s2"}
Clients == {"", "BookstoreA"}
Quantities == {1, 5}
\* The kind and quantity of the postings tried: every kind, and for SHIP a
\* quantity below and one up to the seeded stock of the second title.
FormInputs == {<<"RECEIVE", 1>>, <<"RETURN", 1>>, <<"SHIP", 1>>, <<"SHIP", 5>>}
TxTypes == {"RECEIVE", "SHIP", "RETURN"}

\* ------------------------------------------------------- program constants
INVENTORY_FILE == "inventory.csv"
HISTORY_FILE == "history.csv"
Files == {INVENTORY_FILE, HISTORY_FILE}

InventoryColumns == <<"book", "price", "ISBN", "qty", "safety">>
HistoryColumns == <<"time", "client", "book", "tx_type", "quantity", "price">>

SeedInventory ==
    << [book |-> "InhaHistory", price |-> 15000, ISBN |-> "979-11-87",
        qty |-> 50, safety |-> 10],
       [book |-> "PythonMastery", price |-> 25000, ISBN |-> "979-11-99",
        qty |-> 5, safety |-> 10] >>
EmptyHistory == << >>

\* ------------------------------------------------------------------- state
VARIABLES
    IS_GITHUB_MODE,  \* secrets present: GITHUB_TOKEN and REPO_NAME are set
    remote,          \* the repository's blob at each path
    localfs,         \* the server's file at each path
    now,             \* the wall clock, in seconds
    data_loaded,     \* per session: 'data_loaded' in st.session_state
    df_inventory,    \* per session: st.session_state['df_inventory']
    df_history,      \* per session: st.session_state['df_history']
    pc,              \* per session: where its running script stands
    contents_sha,    \* per session: contents.sha read by get_contents
    frame,           \* per session: selected_book, current_qty, new_qty
    screen,          \* per session: the messages the last run rendered
    report,          \* per session: the return-rate tab as last rendered
    loaded,          \* history: the tables the session's last load returned
    net,             \* history: accepted quantities since that load
    calls,           \* history: the repository writes of the last run
    last_writer,     \* history: the session whose write each blob holds
    connected        \* the sessions that are open

vars == << IS_GITHUB_MODE, remote, localfs, now, data_loaded, df_inventory,
           df_history, pc, contents_sha, frame, screen, report, loaded, net,
           calls, last_writer, connected >>

\* ------------------------------------------------------------ files as CSV
Absent == [kind |-> "absent", header |-> << >>, rows |-> << >>]
Corrupt == [kind |-> "corrupt", header |-> << >>, rows |-> << >>]

InventoryToCsv(df) ==
    [kind |-> "csv", header |-> InventoryColumns,
     rows |-> [i \in 1..Len(df) |->
                 <<df[i].book, df[i].price, df[i].ISBN, df[i].qty, df[i].safety>>]]

HistoryToCsv(df) ==
    [kind |-> "csv", header |-> HistoryColumns,
     rows |-> [i \in 1..Len(df) |->
                 <<df[i].time, df[i].client, df[i].book, df[i].tx_type,
                   df[i].quantity, df[i].price>>]]

InventoryFromCsv(f) ==
    [i \in 1..Len(f.rows) |->
        [book |-> f.rows[i][1], price |-> f.rows[i][2], ISBN |-> f.rows[i][3],
         qty |-> f.rows[i][4], safety |-> f.rows[i][5]]]

HistoryFromCsv(f) ==
    [i \in 1..Len(f.rows) |->
        [time |-> f.rows[i][1], client |-> f.rows[i][2], book |-> f.rows[i][3],
         tx_type |-> f.rows[i][4], quantity |-> f.rows[i][5],
         price |-> f.rows[i][6]]]

to_csv(path, df) ==
    IF path = INVENTORY_FILE THEN InventoryToCsv(df) ELSE HistoryToCsv(df)

read_csv(path, f) ==
    IF path = INVENTORY_FILE THEN InventoryFromCsv(f) ELSE HistoryFromCsv(f)

\* ---------------------------------------------------------------- messages
Msg(level, text) ==
    [level |-> level, text |-> text, book |-> "", before |-> 0, after |-> 0]

Success(fr) ==
    [level |-> "success", text |-> "done", book |-> fr.book,
     before |-> fr.current_qty, after |-> fr.new_qty]

NoFrame == [book |-> "", current_qty |-> 0, new_qty |-> 0]
NoReport == [shown |-> FALSE, rows |-> << >>]
NoTables == [inv |-> << >>, hist |-> << >>]
NoNet == [b \in {} |-> 0]


\* --------------------------------------------------- environment's answers
RepoOutcomes == {"ok", "raise"}
FetchOutcomes == {"ok", "fail"}
ApiOutcomes == {"ok", "GithubException", "Exception"}

\* ------------------------------------------------------------------ loading
\* "None" without secrets; otherwise Github.get_repo asks the server for the
\* repository and raises when it cannot be reached or refuses.
get_github_repo(out) ==
    IF ~IS_GITHUB_MODE THEN "None"
    ELSE IF out = "ok" THEN "repo" ELSE "raise"

\* Tier 1: the blob, or Absent (None) on any failure, swallowed by the bare except.
RemoteTable(path, repo, fetch) ==
    IF repo = "repo" /\ fetch = "ok" /\ remote[path].kind = "csv"
    THEN remote[path]
    ELSE Absent

DefaultTable(path) ==
    IF path = INVENTORY_FILE THEN SeedInventory ELSE EmptyHistory

\* Tiers 2 and 3 for a table tier 1 left unloaded.
LoadTable(path, fetched) ==
    IF fetched.kind = "csv"
    THEN [raised |-> FALSE, df |-> read_csv(path, fetched)]
    ELSE IF localfs[path].kind # "absent"
         THEN IF localfs[path].kind = "corrupt"
              THEN [raised |-> TRUE, df |-> << >>]
              ELSE [raised |-> FALSE, df |-> read_csv(path, localfs[path])]
         ELSE [raised |-> FALSE, df |-> DefaultTable(path)]

load_data(repoOut, fetchInv, fetchHist) ==
    LET repo == get_github_repo(repoOut)
        i == LoadTable(INVENTORY_FILE, RemoteTable(INVENTORY_FILE, repo, fetchInv))
        h == LoadTable(HISTORY_FILE, RemoteTable(HISTORY_FILE, repo, fetchHist))
    IN  IF repo = "raise"
        THEN [raised |-> TRUE, at |-> "get_repo", inv |-> << >>, hist |-> << >>]
        ELSE IF i.raised \/ h.raised
        THEN [raised |-> TRUE, at |-> "read_csv", inv |-> << >>, hist |-> << >>]
        ELSE [raised |-> FALSE, at |-> "", inv |-> i.df, hist |-> h.df]

\* The answers to load_data's calls that lead to different results: without
\* secrets no call is made, and a blob the repository lacks cannot be fetched.
RepoAnswers == IF IS_GITHUB_MODE THEN RepoOutcomes ELSE {"ok"}
FetchAnswers(path, repoOut) ==
    IF IS_GITHUB_MODE /\ repoOut = "ok" /\ remote[path].kind = "csv"
    THEN FetchOutcomes
    ELSE {"ok"}

Idle == [step |-> "idle", path |-> ""]

book_list(df) == {df[i].book : i \in 1..Len(df)}

ZeroNet(df) ==
    [b \in book_list(df) |-> [RECEIVE |-> 0, SHIP |-> 0, RETURN |-> 0]]

\* What a run that ended in an uncaught exception leaves: the traceback only.
Raised(s, at) ==
    /\ screen' = [screen EXCEPT ![s] = << Msg("exception", at) >>]
    /\ report' = [report EXCEPT ![s] = NoReport]
    /\ calls' = [calls EXCEPT ![s] = << >>]

Install(s, r) ==
    /\ df_inventory' = [df_inventory EXCEPT ![s] = r.inv]
    /\ df_history' = [df_history EXCEPT ![s] = r.hist]
    /\ loaded' = [loaded EXCEPT ![s] = [inv |-> r.inv, hist |-> r.hist]]
    /\ net' = [net EXCEPT ![s] = ZeroNet(r.inv)]
    /\ screen' = [screen EXCEPT ![s] = << >>]
    /\ report' = [report EXCEPT ![s] = NoReport]
    /\ calls' = [calls EXCEPT ![s] = << >>]

\* First run of a session: load_data, then mark the session loaded.
Start(s) ==
    /\ ~data_loaded[s]
    /\ pc[s] = Idle
    /\ \E repoOut \in RepoAnswers :
       \E fetchInv \in FetchAnswers(INVENTORY_FILE, repoOut),
          fetchHist \in FetchAnswers(HISTORY_FILE, repoOut) :
         LET r == load_data(repoOut, fetchInv, fetchHist)
         IN  IF r.raised
             THEN /\ Raised(s, r.at)
                  /\ UNCHANGED << data_loaded, df_inventory, df_history, loaded, net >>
             ELSE /\ Install(s, r)
                  /\ data_loaded' = [data_loaded EXCEPT ![s] = TRUE]
    /\ UNCHANGED << IS_GITHUB_MODE, remote, localfs, now, pc, contents_sha, frame,
                    last_writer, connected >>

\* The sidebar's reload button: load_data again, then rerun.
Reload(s) ==
    /\ data_loaded[s]
    /\ pc[s] = Idle
    /\ \E repoOut \in RepoAnswers :
       \E fetchInv \in FetchAnswers(INVENTORY_FILE, repoOut),
          fetchHist \in FetchAnswers(HISTORY_FILE, repoOut) :
         LET r == load_data(repoOut, fetchInv, fetchHist)
         IN  IF r.raised
             THEN /\ Raised(s, r.at)
                  /\ UNCHANGED << df_inventory, df_history, loaded, net >>
             ELSE Install(s, r)
    /\ UNCHANGED << IS_GITHUB_MODE, remote, localfs, now, data_loaded, pc,
                    contents_sha, frame, last_writer, connected >>


\* ------------------------------------------------------------------ posting
\* Index of the first row whose title is the selected one.
book_idx(df, selected_book) ==
    CHOOSE i \in 1..Len(df) :
        /\ df[i].book = selected_book
        /\ \A j \in 1..(i - 1) : df[j].book # selected_book

\* Mutants of the stock test: the operands swapped; only empty stock refused.
InsufficientStockSwapped(current_qty, quantity) == quantity < current_qty
InsufficientStockOnlyEmpty(current_qty, quantity) == current_qty <= 0

\* The SHIP branch's stock test.
InsufficientStock(current_qty, quantity) == current_qty < quantity

\* Mutant of the quantity update: a return taken out of stock.
NewQtyReturnSubtracts(tx_type, current_qty, quantity) ==
    IF tx_type = "RECEIVE" THEN current_qty + quantity
    ELSE current_qty - quantity

NewQty(tx_type, current_qty, quantity) ==
    IF tx_type = "RECEIVE" THEN current_qty + quantity
    ELSE IF tx_type = "SHIP" THEN current_qty - quantity
    ELSE IF tx_type = "RETURN" THEN current_qty + quantity
    ELSE current_qty

new_record(client, selected_book, tx_type, quantity, price) ==
    [time |-> now, client |-> client, book |-> selected_book,
     tx_type |-> tx_type, quantity |-> quantity, price |-> price]

\* Mutants of the concat: the new record last; the old records dropped.
PrependAtEnd(record, history) == history \o << record >>
PrependDropsOld(record, history) == << record >>

\* pd.concat([new_record, df_history]): the new record first.
Prepend(record, history) == << record >> \o history

\* The part of save_data that runs before its first network call: both local
\* files are written; without secrets the call ends here with a toast.
SaveLocal(s, inv, hist, fr) ==
    /\ localfs' = [localfs EXCEPT ![INVENTORY_FILE] = to_csv(INVENTORY_FILE, inv),
                                  ![HISTORY_FILE] = to_csv(HISTORY_FILE, hist)]
    /\ IF IS_GITHUB_MODE
       THEN /\ pc' = [pc EXCEPT ![s] = [step |-> "get_repo", path |-> ""]]
            /\ screen' = [screen EXCEPT ![s] = << >>]
            /\ frame' = [frame EXCEPT ![s] = fr]
       ELSE /\ pc' = pc
            /\ screen' = [screen EXCEPT ![s] =
                            << Msg("toast", "saved_local"), Success(fr) >>]
            /\ frame' = frame

\* The transaction form's submit handler.
\* The record is stamped with the clock's reading; the clock has moved on by
\* the time of the next accepted posting.
Post(s, tx_type, client, selected_book, quantity) ==
    /\ data_loaded[s]
    /\ pc[s] = Idle
    /\ now < MaxPosts
    /\ selected_book \in book_list(df_inventory[s])
    /\ LET idx == book_idx(df_inventory[s], selected_book)
           current_qty == df_inventory[s][idx].qty
           price == df_inventory[s][idx].price
           new_qty == NewQty(tx_type, current_qty, quantity)
           inv == [df_inventory[s] EXCEPT ![idx].qty = new_qty]
           hist == Prepend(new_record(client, selected_book, tx_type, quantity, price),
                           df_history[s])
           fr == [book |-> selected_book, current_qty |-> current_qty,
                  new_qty |-> new_qty]
       IN  IF client = ""
           THEN /\ screen' = [screen EXCEPT ![s] = << Msg("warning", "client_required") >>]
                /\ UNCHANGED << df_inventory, df_history, localfs, pc, frame, net,
                                now >>
           ELSE IF tx_type = "SHIP" /\ InsufficientStock(current_qty, quantity)
           THEN /\ screen' = [screen EXCEPT ![s] = << Msg("error", "insufficient_stock") >>]
                /\ UNCHANGED << df_inventory, df_history, localfs, pc, frame, net,
                                now >>
           ELSE /\ df_inventory' = [df_inventory EXCEPT ![s] = inv]
                /\ df_history' = [df_history EXCEPT ![s] = hist]
                /\ now' = now + 1
                /\ net' = [net EXCEPT ![s][selected_book][tx_type] = @ + quantity]
                /\ SaveLocal(s, inv, hist, fr)
    /\ report' = [report EXCEPT ![s] = NoReport]
    /\ calls' = [calls EXCEPT ![s] = << >>]
    /\ UNCHANGED << IS_GITHUB_MODE, remote, data_loaded, contents_sha, loaded,
                    last_writer, connected >>

PostingForm(s) ==
    \E input \in FormInputs, client \in Clients :
        \E selected_book \in book_list(df_inventory[s]) :
            Post(s, input[1], client, selected_book, input[2])

\* ------------------------------------------------ save_data, the GitHub part
\* Mutant of the upload: the history sent is the session's records put on top
\* of the records the repository holds.
UploadedMerged(s, path) ==
    IF path = INVENTORY_FILE
    THEN to_csv(path, df_inventory[s])
    ELSE LET theirs == read_csv(path, remote[path])
             mine == SelectSeq(df_history[s],
                               LAMBDA r : \A j \in 1..Len(theirs) : theirs[j] # r)
         IN  to_csv(path, mine \o theirs)

\* content_inv, content_hist: the session's table as CSV text.
Uploaded(s, path) ==
    to_csv(path, IF path = INVENTORY_FILE THEN df_inventory[s] ELSE df_history[s])

\* The outer "except Exception": st.error, save_data returns, st.success follows.
SyncFailed(s) ==
    /\ pc' = [pc EXCEPT ![s] = Idle]
    /\ screen' = [screen EXCEPT ![s] = << Msg("error", "sync_failed"), Success(frame[s]) >>]
    /\ contents_sha' = [contents_sha EXCEPT ![s] = Absent]
    /\ frame' = [frame EXCEPT ![s] = NoFrame]

\* A table's write went through: on to the history table, or the closing toast.
Written(s) ==
    /\ contents_sha' = [contents_sha EXCEPT ![s] = Absent]
    /\ IF pc[s].path = INVENTORY_FILE
       THEN /\ pc' = [pc EXCEPT ![s] = [step |-> "get_contents", path |-> HISTORY_FILE]]
            /\ UNCHANGED << screen, frame >>
       ELSE /\ pc' = [pc EXCEPT ![s] = Idle]
            /\ screen' = [screen EXCEPT ![s] = << Msg("toast", "synced"), Success(frame[s]) >>]
            /\ frame' = [frame EXCEPT ![s] = NoFrame]

Call(op, path, result) == [op |-> op, path |-> path, result |-> result]

\* repo = get_github_repo(), outside save_data's try.
SaveGetRepo(s) ==
    /\ pc[s].step = "get_repo"
    /\ \E out \in RepoOutcomes :
         IF get_github_repo(out) = "raise"
         THEN /\ pc' = [pc EXCEPT ![s] = Idle]
              /\ screen' = [screen EXCEPT ![s] = << Msg("exception", "get_repo") >>]
              /\ frame' = [frame EXCEPT ![s] = NoFrame]
         ELSE /\ pc' = [pc EXCEPT ![s] = [step |-> "get_contents", path |-> INVENTORY_FILE]]
              /\ UNCHANGED << screen, frame >>
    /\ UNCHANGED << IS_GITHUB_MODE, remote, localfs, now, data_loaded, df_inventory,
                    df_history, contents_sha, report, loaded, net, calls,
                    last_writer, connected >>

\* repo.get_contents(path): the blob with its sha, 404 when there is none.
get_contents(path, out) ==
    IF out = "ok"
    THEN IF remote[path].kind = "csv" THEN "found" ELSE "GithubException"
    ELSE out

SaveGetContents(s) ==
    /\ pc[s].step = "get_contents"
    /\ \E out \in ApiOutcomes :
         LET r == get_contents(pc[s].path, out)
         IN  IF r = "found"
             THEN /\ contents_sha' = [contents_sha EXCEPT ![s] = remote[pc[s].path]]
                  /\ pc' = [pc EXCEPT ![s].step = "update_file"]
                  /\ UNCHANGED << screen, frame >>
             ELSE IF r = "GithubException"
             THEN /\ pc' = [pc EXCEPT ![s].step = "create_file"]
                  /\ UNCHANGED << contents_sha, screen, frame >>
             ELSE SyncFailed(s)
    /\ UNCHANGED << IS_GITHUB_MODE, remote, localfs, now, data_loaded, df_inventory,
                    df_history, report, loaded, net, calls, last_writer, connected >>

\* repo.update_file(path, message, content, sha): the server replaces the blob
\* when sha is the sha of the blob it holds (a blob's sha is the hash of its
\* content), and answers 409 otherwise.
update_file(path, sha, out) ==
    IF out = "ok"
    THEN IF remote[path] = sha THEN "ok" ELSE "conflict"
    ELSE out

SaveUpdateFile(s) ==
    /\ pc[s].step = "update_file"
    /\ \E out \in ApiOutcomes :
         LET path == pc[s].path
             r == update_file(path, contents_sha[s], out)
         IN  /\ calls' = [calls EXCEPT ![s] = Append(@, Call("update", path, r))]
             /\ IF r = "ok"
                THEN /\ remote' = [remote EXCEPT ![path] = Uploaded(s, path)]
                     /\ last_writer' = [last_writer EXCEPT ![path] = s]
                     /\ Written(s)
                ELSE IF r \in {"conflict", "GithubException"}
                THEN /\ pc' = [pc EXCEPT ![s].step = "create_file"]
                     /\ UNCHANGED << remote, last_writer, contents_sha, screen, frame >>
                ELSE /\ SyncFailed(s)
                     /\ UNCHANGED << remote, last_writer, connected >>
    /\ UNCHANGED << IS_GITHUB_MODE, localfs, now, data_loaded, df_inventory,
                    df_history, report, loaded, net, connected >>

\* repo.create_file(path, message, content): 422 when the path holds a blob.
create_file(path, out) ==
    IF out = "ok"
    THEN IF remote[path].kind = "absent" THEN "ok" ELSE "exists"
    ELSE out

SaveCreateFile(s) ==
    /\ pc[s].step = "create_file"
    /\ \E out \in ApiOutcomes :
         LET path == pc[s].path
             r == create_file(path, out)
         IN  /\ calls' = [calls EXCEPT ![s] = Append(@, Call("create", path, r))]
             /\ IF r = "ok"
                THEN /\ remote' = [remote EXCEPT ![path] = Uploaded(s, path)]
                     /\ last_writer' = [last_writer EXCEPT ![path] = s]
                     /\ Written(s)
                ELSE /\ SyncFailed(s)
                     /\ UNCHANGED << remote, last_writer, connected >>
    /\ UNCHANGED << IS_GITHUB_MODE, localfs, now, data_loaded, df_inventory,
                    df_history, report, loaded, net, connected >>

\* ----------------------------------------------------- return rate by client
RECURSIVE SumQuantity(_, _, _)
\* groupby([client, tx_type])[quantity].sum(), one cell of it.
SumQuantity(df, client, tx_type) ==
    IF df = << >> THEN 0
    ELSE (IF Head(df).client = client /\ Head(df).tx_type = tx_type
          THEN Head(df).quantity ELSE 0)
         + SumQuantity(Tail(df), client, tx_type)

\* The index and the columns of the unstacked frame.
ClientsOf(df) == {df[i].client : i \in 1..Len(df)}
ColumnsOf(df) == {df[i].tx_type : i \in 1..Len(df)}

\* Mutant of the rate: the factor 100 left out.
ReturnRateNoPercent(returned, shipped) ==
    IF shipped > 0
    THEN [num |-> returned, den |-> shipped]
    ELSE [num |-> 0, den |-> 1]

\* The lambda of the rate column, as the exact fraction RETURN / SHIP * 100.
ReturnRate(returned, shipped) ==
    IF shipped > 0
    THEN [num |-> returned * 100, den |-> shipped]
    ELSE [num |-> 0, den |-> 1]

\* "{:.2f}" of a fraction, in hundredths: to the nearest, a tie to the even one.
format_2f(rate) ==
    LET n == rate.num * 100
        q == n \div rate.den
        r == n % rate.den
    IN  IF 2 * r < rate.den THEN q
        ELSE IF 2 * r > rate.den THEN q + 1
        ELSE IF q % 2 = 0 THEN q ELSE q + 1

RateRow(df, client) ==
    LET shipped == SumQuantity(df, client, "SHIP")
        returned == SumQuantity(df, client, "RETURN")
    IN  [SHIP |-> shipped, RETURN |-> returned,
         rate |-> ReturnRate(returned, shipped),
         text |-> format_2f(ReturnRate(returned, shipped))]

\* The third tab of the report page.
ReturnRateTab(s) ==
    /\ data_loaded[s]
    /\ pc[s] = Idle
    /\ LET df == df_history[s]
       IN  IF df = << >>
           THEN /\ screen' = [screen EXCEPT ![s] = << Msg("info", "no_data") >>]
                /\ report' = [report EXCEPT ![s] = NoReport]
           ELSE IF "SHIP" \in ColumnsOf(df)
           THEN /\ screen' = [screen EXCEPT ![s] = << >>]
                /\ report' = [report EXCEPT ![s] =
                                [shown |-> TRUE,
                                 rows |-> [c \in ClientsOf(df) |-> RateRow(df, c)]]]
           ELSE /\ screen' = [screen EXCEPT ![s] = << Msg("info", "no_ship_data") >>]
                /\ report' = [report EXCEPT ![s] = NoReport]
    /\ calls' = [calls EXCEPT ![s] = << >>]
    /\ UNCHANGED << IS_GITHUB_MODE, remote, localfs, now, data_loaded, df_inventory,
                    df_history, pc, contents_sha, frame, loaded, net, last_writer, connected >>

\* ------------------------------------------------------------ specification
Init ==
    /\ IS_GITHUB_MODE \in BOOLEAN
    /\ remote = [p \in Files |-> Absent]
    /\ localfs \in [Files -> {Absent, Corrupt}]
    /\ now = 0
    /\ data_loaded = [s \in Sessions |-> FALSE]
    /\ df_inventory = [s \in Sessions |-> << >>]
    /\ df_history = [s \in Sessions |-> << >>]
    /\ pc = [s \in Sessions |-> Idle]
    /\ contents_sha = [s \in Sessions |-> Absent]
    /\ frame = [s \in Sessions |-> NoFrame]
    /\ screen = [s \in Sessions |-> << >>]
    /\ report = [s \in Sessions |-> NoReport]
    /\ loaded = [s \in Sessions |-> NoTables]
    /\ net = [s \in Sessions |-> NoNet]
    /\ calls = [s \in Sessions |-> << >>]
    /\ last_writer = [p \in Files |-> "none"]
    /\ connected = {"s1"}

Next ==
    \/ \E s \in connected : Start(s)
    \/ \E s \in connected : Reload(s)
    \/ \E s \in connected : PostingForm(s)
    \/ \E s \in connected : SaveGetRepo(s)
    \/ \E s \in connected : SaveGetContents(s)
    \/ \E s \in connected : SaveUpdateFile(s)
    \/ \E s \in connected : SaveCreateFile(s)
    \/ \E s \in connected : ReturnRateTab(s)

Spec == Init /\ [][Next]_vars

\* The return-rate tab over the logs a session can hold after loading a file.
ReportClients == {"BookstoreA", "BookstoreB"}
ReportQuantities == {3, 5, 100}

ReportRecords ==
    [time : {0}, client : ReportClients, book : {"InhaHistory"},
     tx_type : TxTypes, quantity : ReportQuantities, price : {15000}]

ReportLogs ==
    UNION {[1..n -> ReportRecords] : n \in 0..MaxReportLog}

InitReport ==
    /\ IS_GITHUB_MODE = FALSE
    /\ remote = [p \in Files |-> Absent]
    /\ \E log \in ReportLogs :
         df_history = [s \in Sessions |-> IF s = "s1" THEN log ELSE << >>]
    /\ localfs = [p \in Files |-> Absent]
    /\ now = 0
    /\ data_loaded = [s \in Sessions |-> s = "s1"]
    /\ df_inventory = [s \in Sessions |-> IF s = "s1" THEN SeedInventory ELSE << >>]
    /\ pc = [s \in Sessions |-> Idle]
    /\ contents_sha = [s \in Sessions |-> Absent]
    /\ frame = [s \in Sessions |-> NoFrame]
    /\ screen = [s \in Sessions |-> << >>]
    /\ report = [s \in Sessions |-> NoReport]
    /\ loaded = [s \in Sessions |->
                   [inv |-> df_inventory[s], hist |-> df_history[s]]]
    /\ net = [s \in Sessions |-> ZeroNet(df_inventory[s])]
    /\ calls = [s \in Sessions |-> << >>]
    /\ last_writer = [p \in Files |-> "none"]
    /\ connected = {"s1"}

NextReport == \E s \in connected : ReturnRateTab(s)

SpecReport == InitReport /\ [][NextReport]_vars

\* Two sessions of one server, sharing the local files and a repository that
\* already holds both blobs; each tries to ship the five copies of one title.
SharedPostingForm(s) ==
    \E selected_book \in book_list(df_inventory[s]) \cap {"PythonMastery"} :
        Post(s, "SHIP", "BookstoreA", selected_book, 5)

InitShared ==
    /\ IS_GITHUB_MODE = TRUE
    /\ remote = [p \in Files |-> to_csv(p, DefaultTable(p))]
    /\ localfs = [p \in Files |-> Absent]
    /\ now = 0
    /\ data_loaded = [s \in Sessions |-> FALSE]
    /\ df_inventory = [s \in Sessions |-> << >>]
    /\ df_history = [s \in Sessions |-> << >>]
    /\ pc = [s \in Sessions |-> Idle]
    /\ contents_sha = [s \in Sessions |-> Absent]
    /\ frame = [s \in Sessions |-> NoFrame]
    /\ screen = [s \in Sessions |-> << >>]
    /\ report = [s \in Sessions |-> NoReport]
    /\ loaded = [s \in Sessions |-> NoTables]
    /\ net = [s \in Sessions |-> NoNet]
    /\ calls = [s \in Sessions |-> << >>]
    /\ last_writer = [p \in Files |-> "none"]
    /\ connected = Sessions

NextShared ==
    \/ \E s \in connected : Start(s)
    \/ \E s \in connected : Reload(s)
    \/ \E s \in connected : SharedPostingForm(s)
    \/ \E s \in connected : SaveGetRepo(s)
    \/ \E s \in connected : SaveGetContents(s)
    \/ \E s \in connected : SaveUpdateFile(s)
    \/ \E s \in connected : SaveCreateFile(s)

SpecShared == InitShared /\ [][NextShared]_vars


\* ================================================================== claims
\* The row of a title and its on-hand quantity in a session's inventory.
RowOf(df, book) == CHOOSE i \in 1..Len(df) : df[i].book = book
OnHand(s, book) == df_inventory[s][RowOf(df_inventory[s], book)].qty
PriceOf(s, book) == df_inventory[s][RowOf(df_inventory[s], book)].price
IsSuffix(old, new) ==
    /\ Len(old) <= Len(new)
    /\ \A i \in 1..Len(old) : new[Len(new) - Len(old) + i] = old[i]
LocalHolds(s) ==
    /\ localfs[INVENTORY_FILE] = InventoryToCsv(df_inventory[s])
    /\ localfs[HISTORY_FILE] = HistoryToCsv(df_history[s])

\* C1: since its last load, a session's on-hand quantity of each title is the
\* loaded quantity plus the accepted RECEIVE and RETURN quantities minus the
\* accepted SHIP quantities of that title.
C1_NetOfPostings ==
    \A s \in Sessions :
        data_loaded[s] =>
            \A i \in 1..Len(df_inventory[s]) :
                LET b == df_inventory[s][i].book
                IN  df_inventory[s][i].qty =
                        loaded[s].inv[i].qty + net[s][b].RECEIVE + net[s][b].RETURN
                        - net[s][b].SHIP

\* C1 witness: a SHIP on one title and a RETURN on the other were accepted.
C1_Witness ==
    \E s \in Sessions :
        /\ data_loaded[s]
        /\ net[s]["PythonMastery"].SHIP = 5
        /\ net[s]["InhaHistory"].RETURN = 1
        /\ OnHand(s, "PythonMastery") = 0
        /\ OnHand(s, "InhaHistory") = 51

\* C2: a SHIP posting of more than the on-hand quantity shows the
\* insufficient-stock error and changes neither the inventory nor the log nor
\* the local files nor the repository, and starts no save.
C2_ShipRejected ==
    [][\A s \in Sessions, c \in Clients \ {""}, q \in Quantities :
           \A b \in book_list(df_inventory[s]) :
               (Post(s, "SHIP", c, b, q) /\ q > OnHand(s, b)) =>
                   /\ screen'[s] = << Msg("error", "insufficient_stock") >>
                   /\ UNCHANGED << df_inventory, df_history, localfs, remote, pc >>]_vars

\* C2 witness: a session was refused a SHIP and keeps its tables.
C2_Witness ==
    \E s \in Sessions :
        /\ screen[s] = << Msg("error", "insufficient_stock") >>
        /\ OnHand(s, "PythonMastery") = 4
        /\ Len(df_history[s]) = 1

\* C3: no step leaves a negative on-hand quantity, and a SHIP of exactly the
\* on-hand quantity is accepted and leaves 0.
C3_NeverNegative ==
    [][/\ \A s \in Sessions : \A i \in 1..Len(df_inventory'[s]) :
              df_inventory'[s][i].qty >= 0
       /\ \A s \in Sessions, c \in Clients \ {""}, q \in Quantities :
              \A b \in book_list(df_inventory[s]) :
                  (Post(s, "SHIP", c, b, q) /\ q = OnHand(s, b)) =>
                      /\ df_inventory'[s][RowOf(df_inventory[s], b)].qty = 0
                      /\ Len(df_history'[s]) = Len(df_history[s]) + 1]_vars

\* C3 witness: the whole stock of a title was shipped in one posting.
C3_Witness ==
    \E s \in Sessions :
        /\ data_loaded[s]
        /\ OnHand(s, "PythonMastery") = 0
        /\ Len(df_history[s]) = 1
        /\ df_history[s][1].tx_type = "SHIP"
        /\ df_history[s][1].quantity = 5

\* C4: an accepted posting puts exactly one record at the head of the log, with
\* the posting's client, title, kind and quantity and the item's price, keeps
\* the earlier records as they were, and saves the updated tables.
C4_AcceptedPosting ==
    [][\A s \in Sessions, t \in TxTypes, c \in Clients \ {""}, q \in Quantities :
           \A b \in book_list(df_inventory[s]) :
               (Post(s, t, c, b, q) /\ (t = "SHIP" => q <= OnHand(s, b))) =>
                   /\ Len(df_history'[s]) = Len(df_history[s]) + 1
                   /\ Head(df_history'[s]).client = c
                   /\ Head(df_history'[s]).book = b
                   /\ Head(df_history'[s]).tx_type = t
                   /\ Head(df_history'[s]).quantity = q
                   /\ Head(df_history'[s]).price = PriceOf(s, b)
                   /\ Tail(df_history'[s]) = df_history[s]
                   /\ localfs'[INVENTORY_FILE] = InventoryToCsv(df_inventory'[s])
                   /\ localfs'[HISTORY_FILE] = HistoryToCsv(df_history'[s])
                   /\ IS_GITHUB_MODE => pc'[s].step = "get_repo"]_vars

\* C4 witness: a second posting was accepted and its save has begun.
C4_Witness ==
    \E s \in Sessions :
        /\ pc[s].step = "get_repo"
        /\ Len(df_history[s]) = 2
        /\ df_history[s][1].time = 1
        /\ df_history[s][2].time = 0
        /\ LocalHolds(s)

\* C5 as stated: no step, the reload included, removes a record from a
\* session's log.
C5_LogNeverLoses ==
    [][\A s \in Sessions : \A i \in 1..Len(df_history[s]) :
           \E j \in 1..Len(df_history'[s]) : df_history'[s][j] = df_history[s][i]]_vars

\* C5 amended: every step other than the reload keeps each record of a
\* session's log, in the same order, below whatever it adds.
C5_LogKeptUnlessReload ==
    [][\A s \in Sessions : Reload(s) \/ IsSuffix(df_history[s], df_history'[s])]_vars

\* C5 witness: a save's upload failed and the session's log still holds both
\* records, one of which the repository lacks.
C5_Witness ==
    \E s \in Sessions :
        /\ Len(screen[s]) = 2
        /\ screen[s][1] = Msg("error", "sync_failed")
        /\ Len(df_history[s]) = 2
        /\ remote[HISTORY_FILE].kind = "csv"
        /\ Len(remote[HISTORY_FILE].rows) = 1

\* C6: a save that ends, its upload having failed or not, leaves both local
\* files holding the session's tables, the tables as posted, and a screen with
\* the sync notice followed by the before/after quantities.
C6_UploadFailureNotRaised ==
    [][\A s \in Sessions :
           (pc[s].step # "idle" /\ pc'[s].step = "idle") =>
               /\ localfs'[INVENTORY_FILE] = InventoryToCsv(df_inventory'[s])
               /\ localfs'[HISTORY_FILE] = HistoryToCsv(df_history'[s])
               /\ df_inventory'[s] = df_inventory[s]
               /\ df_history'[s] = df_history[s]
               /\ Len(screen'[s]) = 2
               /\ screen'[s][1] \in {Msg("toast", "synced"), Msg("error", "sync_failed")}
               /\ screen'[s][2] = Success(frame[s])]_vars

\* C7: a load raises only if a local file is unparseable; otherwise each table
\* comes from the repository's blob, else from the local file, else from the
\* default, the one independently of the other.
C7_LoadRaisesOnlyOnCorruptFile ==
    [][\A s \in Sessions :
           (Start(s) \/ Reload(s)) =>
               IF screen'[s] # << >>
               THEN \E p \in Files : localfs[p] = Corrupt
               ELSE /\ \/ (IS_GITHUB_MODE /\ remote[INVENTORY_FILE].kind = "csv"
                           /\ df_inventory'[s] = InventoryFromCsv(remote[INVENTORY_FILE]))
                       \/ (localfs[INVENTORY_FILE].kind = "csv"
                           /\ df_inventory'[s] = InventoryFromCsv(localfs[INVENTORY_FILE]))
                       \/ (localfs[INVENTORY_FILE].kind = "absent"
                           /\ df_inventory'[s] = SeedInventory)
                    /\ \/ (IS_GITHUB_MODE /\ remote[HISTORY_FILE].kind = "csv"
                           /\ df_history'[s] = HistoryFromCsv(remote[HISTORY_FILE]))
                       \/ (localfs[HISTORY_FILE].kind = "csv"
                           /\ df_history'[s] = HistoryFromCsv(localfs[HISTORY_FILE]))
                       \/ (localfs[HISTORY_FILE].kind = "absent"
                           /\ df_history'[s] = EmptyHistory)]_vars


\* The last run of s was an accepted posting whose save uploaded both tables.
UploadedBoth(s) ==
    /\ pc[s] = Idle
    /\ Len(calls[s]) = 2
    /\ calls[s][1].path = INVENTORY_FILE /\ calls[s][1].result = "ok"
    /\ calls[s][2].path = HISTORY_FILE /\ calls[s][2].result = "ok"

\* Sessions a and b loaded the same tables, each accepted one posting since and
\* uploaded it, and b's uploads are the ones the repository holds.
BothSaved(a, b) ==
    /\ a # b
    /\ UploadedBoth(a) /\ UploadedBoth(b)
    /\ loaded[a] = loaded[b]
    /\ Len(df_history[a]) = Len(loaded[a].hist) + 1
    /\ Len(df_history[b]) = Len(loaded[b].hist) + 1
    /\ last_writer = [p \in Files |-> b]

\* C8: when two sessions that loaded the same tables have each posted once and
\* saved, the repository holds exactly the later saver's tables, that is the
\* loaded tables with the later saver's posting alone, and both sessions were
\* shown the sync notice and the result, no error.
C8_LaterSaveWins ==
    \A a \in Sessions, b \in Sessions :
        BothSaved(a, b) =>
            /\ remote[INVENTORY_FILE] = InventoryToCsv(df_inventory[b])
            /\ remote[HISTORY_FILE] = HistoryToCsv(df_history[b])
            /\ HistoryFromCsv(remote[HISTORY_FILE])
                   = << Head(df_history[b]) >> \o loaded[a].hist
            /\ \A j \in 1..Len(remote[HISTORY_FILE].rows) :
                   HistoryFromCsv(remote[HISTORY_FILE])[j] # Head(df_history[a])
            /\ \A i \in 1..Len(loaded[a].inv) :
                   LET k == loaded[a].inv[i].book
                   IN  remote[INVENTORY_FILE].rows[i][4] =
                           loaded[a].inv[i].qty + net[b][k].RECEIVE + net[b][k].RETURN
                           - net[b][k].SHIP
            /\ \A x \in {a, b} :
                   /\ Len(screen[x]) = 2
                   /\ screen[x][1] = Msg("toast", "synced")
                   /\ screen[x][2].level = "success"

\* C8 witness: both sessions shipped the whole stock of the same title from
\* the same loaded tables, and the repository shows one shipment.
C8_Witness ==
    /\ BothSaved("s1", "s2")
    /\ OnHand("s1", "PythonMastery") = 0
    /\ OnHand("s2", "PythonMastery") = 0
    /\ Len(remote[HISTORY_FILE].rows) = 1

\* C10: after an update that failed on a stale token, the same save issues no
\* further write for that table.
C10_NoWriteAfterStaleUpdate ==
    \A s \in Sessions :
        \A i \in 1..Len(calls[s]), j \in 1..Len(calls[s]) :
            (i < j /\ calls[s][i].op = "update" /\ calls[s][i].result = "conflict")
                => calls[s][j].path # calls[s][i].path

\* The return-rate tab has been rendered since the log was loaded.
Rendered(s) == report[s].shown \/ screen[s] # << >>

\* The sum of the quantities of a client's records of one kind.
Total(df, client, tx_type) ==
    LET picked == SelectSeq(df, LAMBDA r : r.client = client /\ r.tx_type = tx_type)
        sum[n \in 0..Len(picked)] ==
            IF n = 0 THEN 0 ELSE sum[n - 1] + picked[n].quantity
    IN  sum[Len(picked)]

\* The rate shown for client c is RETURN / SHIP * 100, to two decimals.
RateShown(s, c) ==
    LET df == df_history[s]
        row == report[s].rows[c]
        shipped == Total(df, c, "SHIP")
        returned == Total(df, c, "RETURN")
    IN  /\ row.SHIP = shipped
        /\ row.RETURN = returned
        /\ row.rate.num * shipped = returned * 100 * row.rate.den
        /\ 2 * row.text * shipped <= 2 * returned * 10000 + shipped
        /\ 2 * row.text * shipped >= 2 * returned * 10000 - shipped
        /\ (shipped = 100 /\ returned = 5) => row.text = 500

====
